---- MODULE Spec2Model ----
(***************************************************************************)
(* The chain state engine of lassecoin (src/src/blockchain.rs): the block  *)
(* tree, fork choice, rewind-and-replay of the ledger, the orphan index    *)
(* and the transaction buffer.                                             *)
(*                                                                         *)
(* Representation.                                                         *)
(*  - An account (an RSA public key) is a number in Accounts.  A signature *)
(*    is represented by the account whose private key made it, so that     *)
(*    verifying a signature is the comparison of the signer with the key   *)
(*    it is verified under.                                                *)
(*  - A SHA-256 hash is represented by the content it is the hash of (a    *)
(*    record): equal hashes iff equal contents.  The byte order of hashes  *)
(*    is a fixed total order on those contents (hash_lt).                  *)
(*  - u64 balances are integers; in a build without overflow checks a      *)
(*    negative number n stands for the wrapped value 2^64 + n.             *)
(*  - ledger.rs, block.rs, draw.rs and transaction.rs are not part of the  *)
(*    sources at hand; their operations follow sections 3, 4.1 and 4.2 of  *)
(*    the specification and the uses made of them in blockchain.rs and in  *)
(*    the tests of lib.rs.                                                 *)
(***************************************************************************)
EXTENDS Integers, Sequences, FiniteSets, TLC

VARIABLES
    blocks,              \* Blockchain.blocks: level d is the set of blocks stored at depth d
    best_path_head,      \* Blockchain.best_path_head: <<hash, depth>>
    ledger,              \* Blockchain.ledger
    orphans,             \* Blockchain.orphans: parent hash -> sequence of parked blocks
    transaction_buffer,  \* Blockchain.transaction_buffer
    clock,               \* the timeslot calculate_timeslot() returns now
    overflow_checks,     \* build profile: arithmetic overflow panics (TRUE) or wraps (FALSE)
    panicked,            \* a panic has ended the engine
    network,             \* the blocks and transactions the peers send in this run
    held_draw,           \* the draw the local staker got from get_draw and holds, if any
    last_call            \* the last operation performed, its argument and its result

vars == <<blocks, best_path_head, ledger, orphans, transaction_buffer, clock,
          overflow_checks, panicked, network, held_draw, last_call>>

----------------------------------------------------------------------------
(* Program constants (src/src/lib.rs). *)

TRANSACTION_FEE == 1
BLOCK_REWARD == 50
ROOT_AMOUNT == 300

\* 2^256 and 10421 * 10^73 (lib.rs, is_winner) scaled down to numbers TLC can
\* multiply: a draw value is a number in 0 .. MAX_HASH - 1.
MAX_HASH == 8
HARDNESS == 4

----------------------------------------------------------------------------
(* Bounds of the model. *)

MaxClock == 3           \* the clock stops advancing at this timeslot
MaxBuffer == 1          \* no new transaction is submitted to a buffer of this size
MaxOrphans == 3         \* no block is delivered ahead of its parent to an index of this size

----------------------------------------------------------------------------
(* Accounts. *)

Accounts == 1 .. 4
root_accounts == <<1, 2, 3>>
RootSet == {root_accounts[i] : i \in DOMAIN root_accounts}

----------------------------------------------------------------------------
(* u64 arithmetic. *)

\* a < b as u64 values (a negative representative is a wrapped, huge, value)
u64_lt(a, b) == IF (a < 0) = (b < 0) THEN a < b ELSE b < 0

\* a - b underflows
u64_underflows(a, b) == u64_lt(a, b)

----------------------------------------------------------------------------
(* Ledger (specification section 4.1).  map: balance of every account (a   *)
(* missing entry is a balance of 0); timeslots: per sender, the timeslots  *)
(* of its applied transactions, the last one being the high-water mark;    *)
(* panic: an arithmetic panic was raised by an operation on it.            *)

Ledger_new == [map |-> [a \in Accounts |-> 0],
               timeslots |-> [a \in Accounts |-> <<>>],
               panic |-> FALSE]

get_balance(l, account) == l.map[account]

RECURSIVE SumOver(_, _)
SumOver(f, S) == IF S = {} THEN 0
                 ELSE LET a == CHOOSE x \in S : TRUE IN f[a] + SumOver(f, S \ {a})

get_total_money_in_ledger(l) == SumOver(l.map, Accounts)

high_water(l, account) ==
    IF l.timeslots[account] = <<>> THEN -1
    ELSE l.timeslots[account][Len(l.timeslots[account])]

reward_winner(l, account, amount) ==
    [l EXCEPT !.map[account] = @ + amount]

rollback_reward(l, account) ==
    IF u64_underflows(l.map[account], BLOCK_REWARD) /\ overflow_checks
    THEN [l EXCEPT !.panic = TRUE]
    ELSE [l EXCEPT !.map[account] = @ - BLOCK_REWARD]

verify_transaction_signature(t) == t.signature = t.from

is_transaction_possible(l, t) ==
    /\ ~u64_lt(l.map[t.from], t.amount + TRANSACTION_FEE)
    /\ t.timeslot > high_water(l, t.from)

\* the ledger after process_transaction(t) and the value it returns
process_transaction(l, t) ==
    IF verify_transaction_signature(t) /\ is_transaction_possible(l, t)
    THEN [l |-> [l EXCEPT !.map[t.from] = @ - (t.amount + TRANSACTION_FEE),
                          !.map[t.to] = @ + t.amount,
                          !.timeslots[t.from] = Append(@, t.timeslot)],
          ok |-> TRUE]
    ELSE [l |-> l, ok |-> FALSE]

\* rollback_transaction that leaves the sender's recorded timeslots as they are
rollback_transaction_keeps_mark(l, t) ==
    LET credited == [l EXCEPT !.map[t.from] = @ + (t.amount + TRANSACTION_FEE)]
    IN  IF u64_underflows(credited.map[t.to], t.amount) /\ overflow_checks
        THEN [l EXCEPT !.panic = TRUE]
        ELSE [credited EXCEPT !.map[t.to] = @ - t.amount]

rollback_transaction(l, t) ==
    LET credited == [l EXCEPT !.map[t.from] = @ + (t.amount + TRANSACTION_FEE)]
        popped == IF credited.timeslots[t.from] = <<>> THEN <<>>
                  ELSE SubSeq(credited.timeslots[t.from], 1,
                              Len(credited.timeslots[t.from]) - 1)
    IN  IF u64_underflows(credited.map[t.to], t.amount) /\ overflow_checks
        THEN [l EXCEPT !.panic = TRUE]
        ELSE [credited EXCEPT !.map[t.to] = @ - t.amount,
                              !.timeslots[t.from] = popped]

----------------------------------------------------------------------------
(* Transactions, draws and blocks (specification sections 3 and 4.2). *)

Transaction_new(from, to, sk, amount, timeslot) ==
    [from |-> from, to |-> to, amount |-> amount, timeslot |-> timeslot,
     signature |-> sk]

\* value: SHA-256 of the draw's signature, as a number below MAX_HASH
Draw_new(timeslot, vk, sk, prev_hash, value) ==
    [timeslot |-> timeslot, signed_by |-> vk, prev_hash |-> prev_hash,
     signature |-> sk, value |-> value]

Draw_verify(draw) == draw.signature = draw.signed_by

\* the hash of a block: its content
Block_hash(content) == content

Block_new(timeslot, prev_hash, depth, vk, transactions, sk, value) ==
    LET content == [timeslot |-> timeslot, prev_hash |-> prev_hash,
                    depth |-> depth, producer |-> vk,
                    transactions |-> transactions,
                    draw |-> Draw_new(timeslot, vk, sk, prev_hash, value),
                    signature |-> sk]
    IN  [timeslot |-> content.timeslot, prev_hash |-> content.prev_hash,
         depth |-> content.depth, producer |-> content.producer,
         transactions |-> content.transactions, draw |-> content.draw,
         signature |-> content.signature, hash |-> Block_hash(content)]

\* a block received from a peer with one of its fields replaced, rehashed
Block_with(b, field, value) ==
    LET content == [[timeslot |-> b.timeslot, prev_hash |-> b.prev_hash,
                     depth |-> b.depth, producer |-> b.producer,
                     transactions |-> b.transactions, draw |-> b.draw,
                     signature |-> b.signature] EXCEPT ![field] = value]
    IN  [timeslot |-> content.timeslot, prev_hash |-> content.prev_hash,
         depth |-> content.depth, producer |-> content.producer,
         transactions |-> content.transactions, draw |-> content.draw,
         signature |-> content.signature, hash |-> Block_hash(content)]

verify_signature(b) == b.signature = b.producer

verify_draw(b) ==
    /\ Draw_verify(b.draw)
    /\ b.draw.signed_by = b.producer
    /\ b.draw.prev_hash = b.prev_hash
    /\ b.draw.timeslot = b.timeslot

verify_transactions(b) ==
    \A i \in DOMAIN b.transactions : verify_transaction_signature(b.transactions[i])

verify_all(b) == verify_signature(b) /\ verify_draw(b) /\ verify_transactions(b)

----------------------------------------------------------------------------
(* The byte order of hashes, and the tie-break between blocks. *)

seed_hash == [seed |-> root_accounts]

is_seed(h) == "seed" \in DOMAIN h

RECURSIVE transactions_key(_)
transactions_key(ts) ==
    IF ts = <<>> THEN <<>>
    ELSE <<ts[1].from, ts[1].to, ts[1].amount, ts[1].timeslot, ts[1].signature>>
         \o transactions_key(Tail(ts))

hash_key(h) ==
    <<h.draw.value, h.timeslot, h.depth, h.producer, h.signature, h.draw.timeslot,
      h.draw.signed_by, h.draw.signature, Len(h.transactions)>>
    \o transactions_key(h.transactions)

lex_lt(k1, k2) ==
    \/ \E i \in 1 .. Len(k1) :
          /\ i <= Len(k2)
          /\ k1[i] < k2[i]
          /\ \A j \in 1 .. (i - 1) : k1[j] = k2[j]
    \/ /\ Len(k1) < Len(k2)
       /\ \A j \in 1 .. Len(k1) : k1[j] = k2[j]

RECURSIVE hash_lt(_, _)
hash_lt(h1, h2) ==
    IF h1 = h2 THEN FALSE
    ELSE IF is_seed(h1) THEN TRUE
    ELSE IF is_seed(h2) THEN FALSE
    ELSE IF hash_key(h1) # hash_key(h2) THEN lex_lt(hash_key(h1), hash_key(h2))
    ELSE IF h1.prev_hash # h2.prev_hash THEN hash_lt(h1.prev_hash, h2.prev_hash)
    ELSE hash_lt(h1.draw.prev_hash, h2.draw.prev_hash)

\* higher draw value wins; on a tie the greater hash
is_better_than(a, b) ==
    \/ a.draw.value > b.draw.value
    \/ (a.draw.value = b.draw.value /\ hash_lt(b.hash, a.hash))

----------------------------------------------------------------------------
(* The staking lottery (src/src/lib.rs). *)

\* is_winner with >= in place of >
is_winner_or_equal(l, draw, wallet, always_win) ==
    IF always_win THEN TRUE
    ELSE LET balance == get_balance(l, wallet)
             total_money == get_total_money_in_ledger(l)
             max_hash == MAX_HASH
             hardness == HARDNESS
             mult_factor == (hardness * total_money) + (balance * (max_hash - hardness))
         IN  draw.value * mult_factor >= hardness * total_money * max_hash

is_winner(l, draw, wallet, always_win) ==
    IF always_win THEN TRUE
    ELSE LET balance == get_balance(l, wallet)
             total_money == get_total_money_in_ledger(l)
             max_hash == MAX_HASH
             hardness == HARDNESS
             mult_factor == (hardness * total_money) + (balance * (max_hash - hardness))
         IN  draw.value * mult_factor > hardness * total_money * max_hash

----------------------------------------------------------------------------
(* The engine.  An engine value s holds the fields of Blockchain, the      *)
(* panicked flag and, for the call in progress, the hashes of the orphans  *)
(* it re-submitted (resubmitted) and the accounts it called                *)
(* ledger.rollback_reward on (debited), both in the order of the calls;    *)
(* the blocks rollback undid, each with the ledger calls made for it in    *)
(* their order (undone); the hashes of the blocks rollback replayed, in    *)
(* their order (replayed); and the transactions for which                  *)
(* ledger.process_transaction returned false while a block was applied     *)
(* (skipped).                                                              *)

\* the ledger calls made to undo a block
step_reward(account) == [account |-> account, transaction |-> <<>>]
step_transaction(t) == [account |-> 0, transaction |-> <<t>>]

start ==
    LET block == Block_new(0, seed_hash, 0, root_accounts[1], <<>>, root_accounts[1], 0)
        funded == [a \in Accounts |-> IF a \in RootSet THEN ROOT_AMOUNT ELSE 0]
    IN  [blocks |-> <<{block}>>,
         best_path_head |-> <<block.hash, 0>>,
         ledger |-> [Ledger_new EXCEPT !.map = funded],
         orphans |-> << >>,
         transaction_buffer |-> {},
         panicked |-> FALSE,
         resubmitted |-> <<>>,
         debited |-> <<>>,
                          undone |-> <<>>, replayed |-> <<>>, skipped |-> <<>>]

Panicked(s) == s.panicked \/ s.ledger.panic

\* self.blocks.get(depth): the level, or the empty set when there is none
level(s, depth) ==
    IF depth >= 0 /\ depth < Len(s.blocks) THEN s.blocks[depth + 1] ELSE {}

has_block(s, hash, depth) == \E b \in level(s, depth) : b.hash = hash

get_block(s, hash, depth) == CHOOSE b \in level(s, depth) : b.hash = hash

calculate_timeslot == clock

RECURSIVE rollback_transactions(_, _, _)
\* for t in transactions.iter(): rollback_transaction(t) and, with readd, buffer.insert(t)
rollback_transactions(s, transactions, readd) ==
    IF transactions = <<>> THEN s
    ELSE LET t == Head(transactions)
             s1 == [s EXCEPT !.ledger = rollback_transaction(@, t),
                             !.transaction_buffer = IF readd THEN @ \cup {t} ELSE @,
                             !.undone[Len(s.undone)].steps =
                                 Append(@, step_transaction(t))]
         IN  rollback_transactions(s1, Tail(transactions), readd)

RECURSIVE proccess_transactions(_, _)
proccess_transactions(s, transactions) ==
    IF transactions = <<>> THEN s
    ELSE LET processed == process_transaction(s.ledger, Head(transactions))
         IN  proccess_transactions(
                 [s EXCEPT !.ledger = processed.l,
                           !.skipped = IF processed.ok THEN @
                                       ELSE Append(@, Head(transactions))],
                 Tail(transactions))

RECURSIVE rollback_walk(_, _, _, _)
\* the first loop of rollback: the engine and the track_stack it ends with
rollback_walk(s, from_ptr, to_ptr, track_stack) ==
    IF Panicked(s) \/ from_ptr = to_ptr THEN [s |-> s, track_stack |-> track_stack]
    ELSE
    LET pushed == Append(track_stack, <<to_ptr.hash, to_ptr.depth>>) IN
    IF to_ptr.depth = 1 /\ from_ptr.depth = 1 /\ to_ptr.prev_hash = from_ptr.prev_hash
    THEN LET s1 == [s EXCEPT !.ledger = rollback_reward(@, to_ptr.draw.signed_by),
                             !.debited = Append(@, to_ptr.draw.signed_by),
                             !.undone = Append(@,
                                 [block |-> from_ptr.hash,
                                  steps |-> <<step_reward(to_ptr.draw.signed_by)>>])]
         IN  [s |-> rollback_transactions(s1, from_ptr.transactions, TRUE),
              track_stack |-> pushed]
    ELSE IF ~has_block(s, to_ptr.prev_hash, to_ptr.depth - 1)
    THEN [s |-> [s EXCEPT !.panicked = TRUE], track_stack |-> pushed]
    ELSE
    LET new_to_ptr == get_block(s, to_ptr.prev_hash, to_ptr.depth - 1) IN
    IF to_ptr.depth = from_ptr.depth
    THEN LET s1 == [s EXCEPT !.ledger = rollback_reward(@, new_to_ptr.draw.signed_by),
                             !.debited = Append(@, new_to_ptr.draw.signed_by),
                             !.undone = Append(@,
                                 [block |-> from_ptr.hash,
                                  steps |-> <<step_reward(new_to_ptr.draw.signed_by)>>])]
             s2 == rollback_transactions(s1, from_ptr.transactions, FALSE)
         IN  IF ~has_block(s, from_ptr.prev_hash, from_ptr.depth - 1)
             THEN [s |-> [s2 EXCEPT !.panicked = TRUE], track_stack |-> pushed]
             ELSE rollback_walk(s2, get_block(s, from_ptr.prev_hash, from_ptr.depth - 1),
                                new_to_ptr, pushed)
    ELSE rollback_walk(s, from_ptr, new_to_ptr, pushed)

RECURSIVE rollback_replay_first_in(_, _)
\* the second loop of rollback taking the track_stack from its bottom
rollback_replay_first_in(s, track_stack) ==
    IF Panicked(s) \/ track_stack = <<>> THEN s
    ELSE LET top == track_stack[1]
             block == get_block(s, top[1], top[2])
             s1 == proccess_transactions(s, block.transactions)
             s2 == [s1 EXCEPT !.ledger = reward_winner(@, block.draw.signed_by, BLOCK_REWARD),
                              !.replayed = Append(@, block.hash)]
         IN  rollback_replay_first_in(s2, Tail(track_stack))

RECURSIVE rollback_replay(_, _)
\* the second loop of rollback: pop the track_stack and apply each block
rollback_replay(s, track_stack) ==
    IF Panicked(s) \/ track_stack = <<>> THEN s
    ELSE LET top == track_stack[Len(track_stack)]
             block == get_block(s, top[1], top[2])
             s1 == proccess_transactions(s, block.transactions)
             s2 == [s1 EXCEPT !.ledger = reward_winner(@, block.draw.signed_by, BLOCK_REWARD),
                              !.replayed = Append(@, block.hash)]
         IN  rollback_replay(s2, SubSeq(track_stack, 1, Len(track_stack) - 1))

rollback(s, from, to) ==
    LET walked == rollback_walk(s, get_block(s, from[1], from[2]),
                                get_block(s, to[1], to[2]), <<>>)
    IN  rollback_replay(walked.s, walked.track_stack)

RECURSIVE extend_levels(_, _)
\* while depth >= self.blocks.len() { self.blocks.push(HashMap::new()) }
extend_levels(levels, depth) ==
    IF depth >= Len(levels) THEN extend_levels(Append(levels, {}), depth) ELSE levels

\* fork_choice with the comparison at equal depth the wrong way round
fork_choice_swapped(s, block) ==
    LET old_best_path == s.best_path_head[1]
        old_depth == s.best_path_head[2]
        moved == [s EXCEPT !.best_path_head = <<block.hash, block.depth>>]
    IN  IF block.depth > old_depth
        THEN IF old_best_path # block.prev_hash
             THEN rollback(moved, <<old_best_path, old_depth>>, <<block.hash, block.depth>>)
             ELSE LET applied == proccess_transactions(moved, block.transactions)
                  IN  [applied EXCEPT !.ledger =
                           reward_winner(@, block.draw.signed_by, BLOCK_REWARD)]
        ELSE IF block.depth = old_depth /\ block.hash # old_best_path
                  /\ is_better_than(get_block(s, old_best_path, old_depth), block)
        THEN rollback(moved, <<old_best_path, old_depth>>, <<block.hash, block.depth>>)
        ELSE s

\* the fork choice of add_block for a block just inserted
fork_choice(s, block) ==
    LET old_best_path == s.best_path_head[1]
        old_depth == s.best_path_head[2]
        moved == [s EXCEPT !.best_path_head = <<block.hash, block.depth>>]
    IN  IF block.depth > old_depth
        THEN IF old_best_path # block.prev_hash
             THEN rollback(moved, <<old_best_path, old_depth>>, <<block.hash, block.depth>>)
             ELSE LET applied == proccess_transactions(moved, block.transactions)
                  IN  [applied EXCEPT !.ledger =
                           reward_winner(@, block.draw.signed_by, BLOCK_REWARD)]
        ELSE IF block.depth = old_depth
                  /\ is_better_than(block, get_block(s, old_best_path, old_depth))
        THEN rollback(moved, <<old_best_path, old_depth>>, <<block.hash, block.depth>>)
        ELSE s

\* self.blocks.get(depth - 1)?.get(&parent_hash) finds a block
parent_known(s, block) == has_block(s, block.prev_hash, block.depth - 1)

\* the orphan branch of add_block: push the block under its prev_hash
park(s, block) ==
    [s EXCEPT !.orphans =
        IF block.prev_hash \in DOMAIN @
        THEN [@ EXCEPT ![block.prev_hash] = Append(@, block)]
        ELSE (block.prev_hash :> <<block>>) @@ @]

\* the timeslot check without the comparison with the parent
timeslot_rejected_future_only(block, parent_block) ==
    block.timeslot > calculate_timeslot

\* the timeslot check with < in place of <=
timeslot_rejected_strict(block, parent_block) ==
    block.timeslot < parent_block.timeslot \/ block.timeslot > calculate_timeslot

\* the timeslot check of add_block fails
timeslot_rejected(block, parent_block) ==
    block.timeslot <= parent_block.timeslot \/ block.timeslot > calculate_timeslot

\* insert_block that drops from the level of the block every block but the tip
insert_block_alone(s, block) ==
    [s EXCEPT
        !.blocks = [extend_levels(@, block.depth) EXCEPT ![block.depth + 1] =
                       {b \in @ : b.hash = s.best_path_head[1]} \cup {block}],
        !.transaction_buffer =
            @ \ {block.transactions[i] : i \in DOMAIN block.transactions}]

\* the block is stored at its depth and its transactions leave the buffer
insert_block(s, block) ==
    [s EXCEPT
        !.blocks = [extend_levels(@, block.depth) EXCEPT ![block.depth + 1] =
                       {b \in @ : b.hash # block.hash} \cup {block}],
        !.transaction_buffer =
            @ \ {block.transactions[i] : i \in DOMAIN block.transactions}]

\* self.orphans.remove(&block_hash)
remove_orphans(s, block_hash) ==
    [s EXCEPT !.orphans = [h \in (DOMAIN @) \ {block_hash} |-> @[h]]]

\* the returned value taken as "the new block is the tip"
best_path_updated_to_block(block, old_best_path, s) == block.hash = s.best_path_head[1]

\* the value add_block returns for the block, the tip it found and the engine it leaves
best_path_updated(block, old_best_path, s) == old_best_path # s.best_path_head[1]

RECURSIVE add_block(_, _)
RECURSIVE add_orphans(_, _)

\* for orphan in orphans { self.add_block(orphan.clone()); }
add_orphans(s, parked) ==
    IF Panicked(s) \/ parked = <<>> THEN s
    ELSE LET noted == [s EXCEPT !.resubmitted = Append(@, Head(parked).hash)]
         IN  add_orphans(add_block(noted, Head(parked)).s, Tail(parked))

\* the engine after add_block(block) and the value it returns
add_block(s, block) ==
    IF ~verify_signature(block) THEN [s |-> s, ret |-> FALSE]
    ELSE IF block.depth = 0 /\ overflow_checks
    THEN [s |-> [s EXCEPT !.panicked = TRUE], ret |-> FALSE]    \* depth - 1 on usize
    ELSE IF ~parent_known(s, block) THEN [s |-> park(s, block), ret |-> FALSE]
    ELSE IF timeslot_rejected(block, get_block(s, block.prev_hash, block.depth - 1))
    THEN [s |-> s, ret |-> FALSE]
    ELSE
    LET old_best_path == s.best_path_head[1]
        chosen == fork_choice(insert_block(s, block), block)
        adopted == IF ~Panicked(chosen) /\ block.hash \in DOMAIN chosen.orphans
                   THEN add_orphans(remove_orphans(chosen, block.hash),
                                    chosen.orphans[block.hash])
                   ELSE chosen
    IN  [s |-> adopted, ret |-> best_path_updated(block, old_best_path, adopted)]

\* add_transaction refusing a transaction the buffer already holds
add_transaction_once(s, transaction) ==
    IF verify_transaction_signature(transaction)
       /\ is_transaction_possible(s.ledger, transaction)
       /\ transaction \notin s.transaction_buffer
    THEN [s |-> [s EXCEPT !.transaction_buffer = @ \cup {transaction}], ret |-> TRUE]
    ELSE [s |-> s, ret |-> FALSE]

add_transaction(s, transaction) ==
    IF verify_transaction_signature(transaction)
       /\ is_transaction_possible(s.ledger, transaction)
    THEN [s |-> [s EXCEPT !.transaction_buffer = @ \cup {transaction}], ret |-> TRUE]
    ELSE [s |-> s, ret |-> FALSE]

----------------------------------------------------------------------------
(* Block production. *)

\* Blockchain::stake: is_winner against the live ledger
stake(s, drawn, wallet, always_win) == is_winner(s.ledger, drawn, wallet, always_win)

get_best_hash(s) == s.best_path_head[1]

\* Draw::new(calculate_timeslot(), pk, sk, get_best_hash()); value is the number
\* the hash of the fresh signature comes to
get_draw(s, sk, value) == Draw_new(calculate_timeslot, sk, sk, get_best_hash(s), value)

\* the orders in which a HashSet can be iterated
Orderings(S) ==
    {order \in [1 .. Cardinality(S) -> S] :
        \A i, j \in 1 .. Cardinality(S) : order[i] = order[j] => i = j}

RECURSIVE retain(_, _)
\* transactions_buffer.retain(|t| checking_ledger.process_transaction(t))
retain(checking_ledger, transactions_buffer) ==
    IF transactions_buffer = <<>> THEN <<>>
    ELSE LET processed == process_transaction(checking_ledger, Head(transactions_buffer))
             rest == retain(processed.l, Tail(transactions_buffer))
         IN  IF processed.ok THEN <<Head(transactions_buffer)>> \o rest ELSE rest

\* the block get_new_block(draw, sk) returns when the buffer is iterated in
\* the order transactions_buffer
get_new_block(s, drawn, sk, transactions_buffer) ==
    Block_new(drawn.timeslot, drawn.prev_hash, s.best_path_head[2] + 1, drawn.signed_by,
              retain(s.ledger, transactions_buffer), sk, drawn.value)

----------------------------------------------------------------------------
(* Full-chain verification. *)

RECURSIVE greatest_block(_, _)
\* the loop of check_best_path over the blocks at the maximal depth
greatest_block(greatest_block_so_far, rest) ==
    IF rest = {} THEN greatest_block_so_far
    ELSE LET block == CHOOSE b \in rest : TRUE
         IN  greatest_block(IF ~is_better_than(greatest_block_so_far, block)
                            THEN block ELSE greatest_block_so_far,
                            rest \ {block})

check_best_path(s) ==
    LET max_depth == s.best_path_head[2]
        blocks_at_max_depth == level(s, max_depth)
    IN  /\ Len(s.blocks) - 1 = max_depth
        /\ blocks_at_max_depth # {}
        /\ Cardinality(blocks_at_max_depth) > 1 =>
              LET last == CHOOSE b \in blocks_at_max_depth : TRUE
                  greatest == greatest_block(last, blocks_at_max_depth \ {last})
              IN  <<greatest.hash, greatest.depth>> = s.best_path_head

RECURSIVE best_path(_, _)
\* the blocks from the one at <<hash, depth>> back to the genesis, the genesis
\* excluded, in the order from the genesis (the track_stack of verify_chain, popped)
best_path(s, ptr) ==
    IF ptr[2] <= 0 \/ ~has_block(s, ptr[1], ptr[2]) THEN <<>>
    ELSE LET block == get_block(s, ptr[1], ptr[2])
         IN  Append(best_path(s, <<block.prev_hash, ptr[2] - 1>>), block)

root_ledger ==
    [Ledger_new EXCEPT !.map = [a \in Accounts |->
                                   IF a \in RootSet THEN ROOT_AMOUNT ELSE 0]]

RECURSIVE process_all(_, _)
\* transactions.iter().all(|t| track_ledger.process_transaction(&t))
process_all(l, transactions) ==
    IF transactions = <<>> THEN [l |-> l, ok |-> TRUE]
    ELSE LET first == process_transaction(l, Head(transactions))
         IN  IF first.ok THEN process_all(first.l, Tail(transactions))
             ELSE [l |-> first.l, ok |-> FALSE]

RECURSIVE verify_path_unstaked(_, _, _, _, _)
\* the loop of verify_chain with the check of the winner left out
verify_path_unstaked(path, track_ledger, prev_hash, prev_ts, always_win) ==
    IF path = <<>> THEN [l |-> track_ledger, ok |-> TRUE]
    ELSE LET block == Head(path)
             winner == block.draw.signed_by
             processed == process_all(track_ledger, block.transactions)
         IN  IF \/ block.timeslot <= prev_ts
                \/ block.prev_hash # prev_hash
                \/ ~verify_all(block)
                \/ ~processed.ok
             THEN [l |-> track_ledger, ok |-> FALSE]
             ELSE verify_path_unstaked(Tail(path),
                                       reward_winner(processed.l, winner, BLOCK_REWARD),
                                       block.hash, block.timeslot, always_win)

RECURSIVE verify_path(_, _, _, _, _)
\* the loop of verify_chain over the best path: the track_ledger it ends with
\* and whether every check passed
verify_path(path, track_ledger, prev_hash, prev_ts, always_win) ==
    IF path = <<>> THEN [l |-> track_ledger, ok |-> TRUE]
    ELSE LET block == Head(path)
             winner == block.draw.signed_by
             processed == process_all(track_ledger, block.transactions)
         IN  IF \/ block.timeslot <= prev_ts
                \/ block.prev_hash # prev_hash
                \/ ~verify_all(block)
                \/ ~is_winner(track_ledger, block.draw, winner, always_win)
                \/ ~processed.ok
             THEN [l |-> track_ledger, ok |-> FALSE]
             ELSE verify_path(Tail(path),
                              reward_winner(processed.l, winner, BLOCK_REWARD),
                              block.hash, block.timeslot, always_win)

verify_genesis(b) == b.prev_hash = seed_hash /\ b.depth = 0

\* verify_chain without the check of the winner
verify_chain_unstaked(s, always_win) ==
    /\ check_best_path(s)
    /\ Cardinality(level(s, 0)) = 1
    /\ LET genesis_block == CHOOSE b \in level(s, 0) : TRUE
           verified == verify_path(best_path(s, s.best_path_head), root_ledger,
                                   genesis_block.hash, genesis_block.timeslot, TRUE)
       IN  /\ verified.ok
           /\ genesis_block.transactions = <<>>
           /\ verify_genesis(genesis_block)
           /\ s.ledger = verified.l

\* verify_chain without the comparison of the ledgers at its end
verify_chain_unledgered(s, always_win) ==
    /\ check_best_path(s)
    /\ Cardinality(level(s, 0)) = 1
    /\ LET genesis_block == CHOOSE b \in level(s, 0) : TRUE
           verified == verify_path(best_path(s, s.best_path_head), root_ledger,
                                   genesis_block.hash, genesis_block.timeslot,
                                   always_win)
       IN  /\ verified.ok
           /\ genesis_block.transactions = <<>>
           /\ verify_genesis(genesis_block)

verify_chain(s, always_win) ==
    /\ check_best_path(s)
    /\ Cardinality(level(s, 0)) = 1
    /\ LET genesis_block == CHOOSE b \in level(s, 0) : TRUE
           verified == verify_path(best_path(s, s.best_path_head), root_ledger,
                                   genesis_block.hash, genesis_block.timeslot,
                                   always_win)
       IN  /\ verified.ok
           /\ genesis_block.transactions = <<>>
           /\ verify_genesis(genesis_block)
           /\ s.ledger = verified.l

----------------------------------------------------------------------------
(* The transactions and blocks that peers send: those of the tests of      *)
(* lib.rs (test_blockchain_rollback, test_orphanage, test_ledger), with    *)
(* two producers, and malformed variants of them.                          *)

genesis == CHOOSE b \in start.blocks[1] : TRUE

transaction_b1_1 == Transaction_new(1, 3, 1, 10, 0)
transaction_b1_2 == Transaction_new(1, 3, 1, 10, 1)
transaction_b2_1 == Transaction_new(1, 2, 1, 20, 0)
transaction_b2_2 == Transaction_new(1, 2, 1, 20, 1)
transaction_b2_3 == Transaction_new(1, 2, 1, 20, 2)
transaction_forged == Transaction_new(3, 1, 1, 50, 2)

block_b1_1 == Block_new(1, genesis.hash, 1, 2, <<transaction_b1_1>>, 2, 6)
block_b2_1 == Block_new(1, genesis.hash, 1, 3, <<transaction_b2_1>>, 3, 7)
block_b1_2 == Block_new(2, block_b1_1.hash, 2, 2, <<transaction_b1_2>>, 2, 6)
block_b2_2 == Block_new(2, block_b2_1.hash, 2, 3, <<transaction_b2_2>>, 3, 6)
block_b2_3 == Block_new(3, block_b2_2.hash, 3, 3, <<transaction_b2_3>>, 3, 5)
\* a second child of b1_1, by another producer, better than b1_2
block_b3_2 == Block_new(2, block_b1_1.hash, 2, 1, <<>>, 1, 7)
\* a child of b1_1 that repeats the transaction of b1_1
block_replay == Block_new(2, block_b1_1.hash, 2, 2, <<transaction_b1_1>>, 2, 5)
\* a block at depth 1 by an account that holds nothing, with the best draw
block_b4_1 == Block_new(1, genesis.hash, 1, 4, <<>>, 4, 7)
\* a block with the draw value of b1_2: the tie is broken by the hashes
block_b4_2 == Block_new(2, block_b2_1.hash, 2, 2, <<>>, 2, 6)

\* blocks that carry two transactions of one sender
transaction_b1_3 == Transaction_new(1, 3, 1, 10, 2)
block_b5_1 == Block_new(1, genesis.hash, 1, 3, <<transaction_b1_1, transaction_b1_2>>, 3, 5)
block_b5_2 == Block_new(2, block_b1_1.hash, 2, 2, <<transaction_b1_2, transaction_b1_3>>, 2, 5)

\* What the peers of one run send: the blocks that exist in the network and
\* the transactions submitted directly; staker is the account whose key the
\* node stakes with (0: the node does not stake).
Network_rollback ==
    [blocks |-> {block_b1_1, block_b2_1, block_b1_2, block_b2_2, block_b2_3},
     transactions |-> {transaction_b1_1, transaction_b2_2},
     staker |-> 0]

Network_orphanage ==
    [blocks |-> {block_b1_1, block_b2_1, block_b2_2, block_b4_1,
                 Block_with(block_b2_2, "depth", 3),
                 Block_with(block_b1_1, "depth", 0)},
     transactions |-> {transaction_b2_1},
     staker |-> 0]

Network_siblings ==
    [blocks |-> {block_b1_1, block_b2_1, block_b1_2, block_b3_2, block_replay,
                 block_b4_2},
     transactions |-> {transaction_b1_2},
     staker |-> 0]

Network_malformed ==
    [blocks |-> {block_b1_1,
                 Block_with(block_b1_1, "signature", 1),
                 Block_with(block_b1_1, "draw", [block_b1_1.draw EXCEPT !.signature = 1]),
                 Block_with(block_b1_1, "draw", Draw_new(1, 3, 3, genesis.hash, 6)),
                 Block_with(block_b1_1, "transactions", <<transaction_forged>>)},
     transactions |-> {transaction_b1_1, transaction_forged},
     staker |-> 0]

Network_draw ==
    [blocks |-> {block_b1_1,
                 Block_with(block_b1_2, "signature", 3),
                 Block_with(block_b1_2, "draw", Draw_new(2, 2, 2, genesis.hash, 6)),
                 Block_with(block_b1_1, "draw", Draw_new(2, 2, 2, genesis.hash, 6))},
     transactions |-> {transaction_b1_2},
     staker |-> 0]

Network_timeslot ==
    [blocks |-> {block_b1_1, block_b1_2,
                 Block_with(block_b1_1, "timeslot", 0),
                 Block_with(block_b1_2, "timeslot", 1),
                 Block_with(block_b1_2, "timeslot", 3)},
     transactions |-> {transaction_b1_1},
     staker |-> 0]

\* a run in which the node itself stakes, with the key of account 1
Network_stake ==
    [blocks |-> {block_b1_1, block_b2_1},
     transactions |-> {transaction_b2_2},
     staker |-> 1]

\* forks that abandon a block of two transactions, at depth 1 and at depth 2
Network_pairs ==
    [blocks |-> {block_b5_1, block_b1_1, block_b5_2, block_b3_2},
     transactions |-> {},
     staker |-> 0]

\* a chain delivered from its end, with a child of b2_2 whose depth field is
\* one more than the depth of b2_2 + 1
Network_reparked ==
    [blocks |-> {block_b2_1, block_b2_2, Block_with(block_b2_3, "depth", 4)},
     transactions |-> {},
     staker |-> 0]

Networks ==
    {Network_rollback, Network_orphanage, Network_siblings, Network_malformed,
     Network_draw, Network_timeslot, Network_stake, Network_pairs, Network_reparked}

\* the values the draws of the local staker come to
DrawValues == {7}

----------------------------------------------------------------------------
(* The state machine. *)

engine ==
    [blocks |-> blocks, best_path_head |-> best_path_head, ledger |-> ledger,
     orphans |-> orphans, transaction_buffer |-> transaction_buffer,
     panicked |-> panicked, resubmitted |-> <<>>, debited |-> <<>>,
                          undone |-> <<>>, replayed |-> <<>>, skipped |-> <<>>]

orphan_count(s) ==
    LET RECURSIVE count(_)
        count(D) == IF D = {} THEN 0
                    ELSE LET h == CHOOSE x \in D : TRUE
                         IN  Len(s.orphans[h]) + count(D \ {h})
    IN  count(DOMAIN s.orphans)

would_park(s, block) == verify_signature(block) /\ ~parent_known(s, block)

\* the variables after a call that ended with the engine r.s and returned r.ret:
\* a panic ends the engine and leaves nothing to observe but the panic
Returned(op, arg, r) ==
    IF Panicked(r.s)
    THEN /\ panicked' = TRUE
         /\ last_call' = [op |-> op, arg |-> arg, ret |-> FALSE, resubmitted |-> <<>>,
                          debited |-> <<>>,
                          undone |-> <<>>, replayed |-> <<>>, skipped |-> <<>>]
         /\ UNCHANGED <<blocks, best_path_head, ledger, orphans, transaction_buffer>>
    ELSE /\ blocks' = r.s.blocks
         /\ best_path_head' = r.s.best_path_head
         /\ ledger' = r.s.ledger
         /\ orphans' = r.s.orphans
         /\ transaction_buffer' = r.s.transaction_buffer
         /\ last_call' = [op |-> op, arg |-> arg, ret |-> r.ret,
                          resubmitted |-> r.s.resubmitted, debited |-> r.s.debited,
                          undone |-> r.s.undone, replayed |-> r.s.replayed,
                          skipped |-> r.s.skipped]
         /\ UNCHANGED panicked

Init ==
    /\ blocks = start.blocks
    /\ best_path_head = start.best_path_head
    /\ ledger = start.ledger
    /\ orphans = start.orphans
    /\ transaction_buffer = start.transaction_buffer
    /\ clock = 0
    /\ overflow_checks \in BOOLEAN
    /\ panicked = FALSE
    /\ network \in Networks
    /\ held_draw = {}
    /\ last_call = [op |-> "start", arg |-> <<>>, ret |-> FALSE, resubmitted |-> <<>>,
                          debited |-> <<>>,
                          undone |-> <<>>, replayed |-> <<>>, skipped |-> <<>>]

\* the block get_new_block has just returned, which the node may submit
new_block == IF last_call.op = "get_new_block" THEN {last_call.ret} ELSE {}

AddBlock ==
    /\ ~panicked
    /\ \E block \in network.blocks \cup new_block :
          /\ would_park(engine, block) => orphan_count(engine) < MaxOrphans
          /\ Returned("add_block", block, add_block(engine, block))
    /\ UNCHANGED <<clock, overflow_checks, network, held_draw>>

AddTransaction ==
    /\ ~panicked
    /\ \E transaction \in network.transactions :
          /\ \/ transaction \in transaction_buffer
             \/ Cardinality(transaction_buffer) < MaxBuffer
          /\ Returned("add_transaction", transaction, add_transaction(engine, transaction))
    /\ UNCHANGED <<clock, overflow_checks, network, held_draw>>

GetDraw ==
    /\ ~panicked
    /\ network.staker # 0
    /\ \E value \in DrawValues :
          LET drawn == get_draw(engine, network.staker, value)
          IN  /\ held_draw' = {drawn}
              /\ last_call' = [op |-> "get_draw", arg |-> <<>>, ret |-> drawn,
                               resubmitted |-> <<>>, debited |-> <<>>,
                          undone |-> <<>>, replayed |-> <<>>, skipped |-> <<>>]
    /\ UNCHANGED <<blocks, best_path_head, ledger, orphans, transaction_buffer, clock,
                   overflow_checks, panicked, network>>

\* get_new_block takes the draw by value and leaves the engine as it is
GetNewBlock ==
    /\ ~panicked
    /\ \E drawn \in held_draw : \E order \in Orderings(transaction_buffer) :
          last_call' = [op |-> "get_new_block", arg |-> drawn,
                        ret |-> get_new_block(engine, drawn, network.staker, order),
                        resubmitted |-> <<>>, debited |-> <<>>,
                          undone |-> <<>>, replayed |-> <<>>, skipped |-> <<>>]
    /\ held_draw' = {}
    /\ UNCHANGED <<blocks, best_path_head, ledger, orphans, transaction_buffer, clock,
                   overflow_checks, panicked, network>>

\* the wall clock enters the next timeslot
Tick ==
    /\ ~panicked
    /\ clock < MaxClock
    /\ clock' = clock + 1
    /\ last_call' = [op |-> "tick", arg |-> <<>>, ret |-> FALSE, resubmitted |-> <<>>,
                          debited |-> <<>>,
                          undone |-> <<>>, replayed |-> <<>>, skipped |-> <<>>]
    /\ UNCHANGED <<blocks, best_path_head, ledger, orphans, transaction_buffer,
                   overflow_checks, panicked, network, held_draw>>

Next == AddBlock \/ AddTransaction \/ GetDraw \/ GetNewBlock \/ Tick

Spec == Init /\ [][Next]_vars

----------------------------------------------------------------------------
(* The ledger a replay of the best path from the genesis gives. *)

RECURSIVE replay(_, _)
\* apply, block by block, the transactions and then the reward of the producer
replay(l, path) ==
    IF path = <<>> THEN l
    ELSE LET block == Head(path)
             applied == proccess_transactions([ledger |-> l, skipped |-> <<>>],
                                                block.transactions).ledger
         IN  replay(reward_winner(applied, block.draw.signed_by, BLOCK_REWARD),
                    Tail(path))

replay_from_genesis == replay(root_ledger, best_path(engine, best_path_head))

RECURSIVE count_transactions(_)
count_transactions(path) ==
    IF path = <<>> THEN 0
    ELSE Len(Head(path).transactions) + count_transactions(Tail(path))

tip == get_block(engine, best_path_head[1], best_path_head[2])

----------------------------------------------------------------------------
(* C1: after any sequence of add_block and add_transaction calls the live  *)
(* ledger equals the ledger obtained by crediting ROOT_AMOUNT to every     *)
(* root account and replaying the best path from the genesis to the tip:   *)
(* each block's transactions, then BLOCK_REWARD to its producer.           *)
C1_LedgerEqualsReplay == ledger = replay_from_genesis

(* C2: the tip is a block of maximal depth (its depth is the number of     *)
(* levels - 1) and it is better than every other block stored at that      *)
(* depth, whatever the order of arrival.                                   *)
C2_TipMaximal ==
    /\ best_path_head[2] = Len(blocks) - 1
    /\ has_block(engine, best_path_head[1], best_path_head[2])
    /\ \A b \in level(engine, best_path_head[2]) :
          b.hash # best_path_head[1] => is_better_than(tip, b)

C2_Witness ==
    /\ last_call.op = "add_block"
    /\ ~panicked
    /\ ~last_call.ret
    /\ last_call.arg.depth = best_path_head[2]
    /\ best_path_head[2] >= 2
    /\ has_block(engine, last_call.arg.hash, last_call.arg.depth)
    /\ is_better_than(tip, last_call.arg)
    /\ \E b \in level(engine, best_path_head[2]) :
          b.draw.value = tip.draw.value /\ b.hash # tip.hash

(* C3: the sum of the balances is ROOT_AMOUNT * |roots| + BLOCK_REWARD *   *)
(* (blocks on the best path, genesis excluded) - TRANSACTION_FEE *         *)
(* (transactions contained in the blocks on the best path).                *)
C3_Conservation ==
    get_total_money_in_ledger(ledger) =
        ROOT_AMOUNT * Len(root_accounts)
        + BLOCK_REWARD * Len(best_path(engine, best_path_head))
        - TRANSACTION_FEE * count_transactions(best_path(engine, best_path_head))

----------------------------------------------------------------------------
(* Steps.  Every action records itself in last_call, so a step that sets   *)
(* last_call'.op to "add_block" is a call of add_block, with the block in  *)
(* last_call'.arg and the returned value in last_call'.ret.                *)

AddBlockStep == last_call'.op = "add_block"

AddBlockReturns == AddBlockStep /\ ~panicked'

\* the timeslot of the block is above its parent's and not above the current one
timeslot_admissible(s, block) ==
    LET parent_block == get_block(s, block.prev_hash, block.depth - 1)
    IN  block.timeslot > parent_block.timeslot /\ block.timeslot <= clock

\* add_block inserts the block into the tree
admitted(s, block) ==
    verify_signature(block) /\ parent_known(s, block) /\ timeslot_admissible(s, block)

Range(f) == {f[i] : i \in DOMAIN f}

parked_blocks(s) == UNION {Range(s.orphans[h]) : h \in DOMAIN s.orphans}

tree_blocks(s) == UNION Range(s.blocks)

----------------------------------------------------------------------------
(* C4: add_block rejects every block that fails byte-level verification    *)
(* (its own signature, its draw, or the signature of one of its            *)
(* transactions): it returns false, inserts nothing and parks nothing.     *)
C4_RejectsUnverified ==
    [][(AddBlockStep /\ ~verify_all(last_call'.arg)) =>
          (~last_call'.ret /\ blocks' = blocks /\ orphans' = orphans)]_vars

(* C5 as stated: under the real lottery add_block rejects a block that     *)
(* extends the tip and whose producer does not win against the ledger at   *)
(* that tip: nothing is inserted, the tip and the ledger are unchanged and *)
(* verify_chain still returns true.                                        *)
lottery_loser(block) ==
    /\ block.prev_hash = best_path_head[1]
    /\ block.depth = best_path_head[2] + 1
    /\ ~is_winner(ledger, block.draw, block.draw.signed_by, FALSE)

C5_LoserRejected ==
    [][(AddBlockStep /\ verify_chain(engine, FALSE) /\ lottery_loser(last_call'.arg)) =>
          /\ blocks' = blocks
          /\ best_path_head' = best_path_head
          /\ ledger' = ledger
          /\ verify_chain(engine', FALSE)]_vars

(* C5 amended: add_block does not consult the lottery.  A block that        *)
(* extends the tip, passes the signature and timeslot checks and whose      *)
(* producer does not win under the real lottery is inserted and changes    *)
(* the tip, and verify_chain (real lottery) returns false afterwards.      *)
C5_LoserAdmitted ==
    [][(AddBlockReturns /\ lottery_loser(last_call'.arg)
          /\ admitted(engine, last_call'.arg)) =>
          /\ has_block(engine', last_call'.arg.hash, last_call'.arg.depth)
          /\ last_call'.ret
          /\ best_path_head'[2] > best_path_head[2]
          /\ ~verify_chain(engine', FALSE)]_vars

C5_Witness ==
    /\ last_call.op = "add_block"
    /\ ~panicked
    /\ best_path_head = <<last_call.arg.hash, 1>>
    /\ ~is_winner(root_ledger, last_call.arg.draw, last_call.arg.draw.signed_by, FALSE)
    /\ verify_all(last_call.arg)
    /\ ~verify_chain(engine, FALSE)

(* C6: a block whose parent is not at level depth - 1 is parked: add_block  *)
(* returns false, appends exactly that block to the orphans under its      *)
(* prev_hash and leaves the tree, the tip, the ledger and the buffer       *)
(* unchanged.  Stated for the blocks that pass the signature check, which  *)
(* comes first.                                                            *)
parked_by(block) ==
    LET before == IF block.prev_hash \in DOMAIN orphans
                  THEN orphans[block.prev_hash] ELSE <<>>
    IN  /\ ~panicked'
        /\ ~last_call'.ret
        /\ DOMAIN orphans' = DOMAIN orphans \cup {block.prev_hash}
        /\ orphans'[block.prev_hash] = Append(before, block)
        /\ \A h \in DOMAIN orphans : h # block.prev_hash => orphans'[h] = orphans[h]
        /\ blocks' = blocks
        /\ best_path_head' = best_path_head
        /\ ledger' = ledger
        /\ transaction_buffer' = transaction_buffer

C6_Parked ==
    [][(AddBlockStep
          /\ verify_signature(last_call'.arg)
          /\ ~parent_known(engine, last_call'.arg)) => parked_by(last_call'.arg)]_vars

\* what holds of parking: the block is of depth 1 or more, or the build wraps
parks_from_depth_1 ==
    [][(AddBlockStep
          /\ verify_signature(last_call'.arg)
          /\ (last_call'.arg.depth >= 1 \/ ~overflow_checks)
          /\ ~parent_known(engine, last_call'.arg)) => parked_by(last_call'.arg)]_vars

(* C7: when a call of add_block admits a block P, every block B parked    *)
(* under the hash of P is re-submitted inside that call; and if such a B   *)
(* is the tip afterwards, the ledger reflects the transactions of P and    *)
(* of B: each is recorded as applied for its sender.                       *)
applied_in(l, block) ==
    \A i \in DOMAIN block.transactions :
        block.transactions[i].timeslot \in Range(l.timeslots[block.transactions[i].from])

C7_OrphanLiveness ==
    [][(AddBlockReturns /\ admitted(engine, last_call'.arg)
          /\ last_call'.arg.hash \in DOMAIN orphans) =>
          LET parked == orphans[last_call'.arg.hash]
          IN  /\ Len(last_call'.resubmitted) >= Len(parked)
              /\ \A i \in DOMAIN parked :
                    /\ last_call'.resubmitted[i] = parked[i].hash
                    /\ best_path_head'[1] = parked[i].hash =>
                          /\ applied_in(ledger', last_call'.arg)
                          /\ applied_in(ledger', parked[i])]_vars

(* C8: when add_block has returned, no block is parked under the hash of   *)
(* a block that is in the tree.                                            *)
C8_NoOrphanOfKnownParent ==
    (last_call.op = "add_block" /\ ~panicked) =>
        \A h \in DOMAIN orphans : \A b \in tree_blocks(engine) : b.hash # h

(* C9: a block with a known parent whose timeslot is not above its         *)
(* parent's, or is above the current timeslot, and any block with an       *)
(* invalid signature, is rejected: add_block returns false and changes     *)
(* nothing.                                                                *)
C9_RejectedUnchanged ==
    [][(AddBlockStep
          /\ \/ ~verify_signature(last_call'.arg)
             \/ /\ parent_known(engine, last_call'.arg)
                /\ ~timeslot_admissible(engine, last_call'.arg)) =>
          /\ ~panicked'
          /\ ~last_call'.ret
          /\ UNCHANGED <<blocks, best_path_head, ledger, transaction_buffer, orphans>>]_vars

C9_Witness ==
    /\ last_call.op = "add_block"
    /\ ~panicked
    /\ verify_signature(last_call.arg)
    /\ parent_known(engine, last_call.arg)
    /\ last_call.arg.timeslot <= clock
    /\ last_call.arg.timeslot <= get_block(engine, last_call.arg.prev_hash,
                                           last_call.arg.depth - 1).timeslot
    /\ ~has_block(engine, last_call.arg.hash, last_call.arg.depth)
    /\ last_call.arg.depth = 2

(* C10: add_block returns true iff the tip hash after the call, cascade    *)
(* included, differs from the tip hash before it; it returns true when     *)
(* the admitted block is deeper than the previous tip, and false for a     *)
(* rejected or parked block.                                               *)
C10_ReturnsTipChanged ==
    [][AddBlockReturns =>
          /\ last_call'.ret <=> (best_path_head'[1] # best_path_head[1])
          /\ (admitted(engine, last_call'.arg)
                /\ last_call'.arg.depth > best_path_head[2]) => last_call'.ret
          /\ ~admitted(engine, last_call'.arg) => ~last_call'.ret]_vars

C10_Witness ==
    /\ last_call.op = "add_block"
    /\ ~panicked
    /\ last_call.ret
    /\ Len(last_call.resubmitted) >= 1
    /\ best_path_head[1] # last_call.arg.hash

----------------------------------------------------------------------------
(* C11 as stated: the same transaction submitted to add_transaction twice, *)
(* with the sender funded and nothing in between, is accepted the first    *)
(* time and rejected the second time.  In a state that add_transaction(t)  *)
(* has just left with true, the next call is add_transaction(engine, t).   *)
C11_SecondRejected ==
    (last_call.op = "add_transaction" /\ last_call.ret) =>
        ~add_transaction(engine, last_call.arg).ret

(* C11 amended: add_transaction accepts a correctly signed transaction     *)
(* that the live ledger can apply, and it does not touch the ledger; so    *)
(* the second submission, with nothing in between, returns true as well    *)
(* and leaves the engine, whose buffer holds the transaction once, as it   *)
(* is.                                                                     *)
C11_SecondAccepted ==
    /\ (last_call.op = "add_transaction" /\ ~panicked) =>
          /\ last_call.ret <=> (/\ verify_transaction_signature(last_call.arg)
                                /\ is_transaction_possible(ledger, last_call.arg))
          /\ last_call.ret => last_call.arg \in transaction_buffer
    /\ (last_call.op = "add_transaction" /\ last_call.ret) =>
          /\ add_transaction(engine, last_call.arg).ret
          /\ add_transaction(engine, last_call.arg).s = engine

C11_Witness ==
    /\ last_call.op = "add_transaction"
    /\ last_call.ret
    /\ last_call.arg \in transaction_buffer
    /\ get_balance(ledger, last_call.arg.from)
          >= last_call.arg.amount + TRANSACTION_FEE
    /\ Len(blocks) > 1

----------------------------------------------------------------------------
\* the transactions contained in the blocks of a path
transactions_of(path) ==
    UNION {Range(path[i].transactions) : i \in DOMAIN path}

(* C12: after any sequence of add_transaction and add_block calls the      *)
(* buffer holds no transaction that is contained in a block on the best    *)
(* path (the tip or one of its ancestors).                                 *)
C12_BufferOffBestPath ==
    transaction_buffer \cap transactions_of(best_path(engine, best_path_head)) = {}

----------------------------------------------------------------------------
\* the blocks of a path, as a set
blocks_of(path) == Range(path)

\* a step of add_block that moves the tip off the branch of the old tip, with
\* no orphan re-submitted: one fork switch, from the old tip to the new one
ForkSwitch ==
    /\ AddBlockReturns
    /\ last_call'.resubmitted = <<>>
    /\ best_path_head' # best_path_head
    /\ best_path_head'[1] = last_call'.arg.hash
    /\ tip \notin blocks_of(best_path(engine', best_path_head'))
    /\ best_path_head[2] > 0

\* the blocks the switch abandons: on the old best path, not on the new one
abandoned_blocks ==
    blocks_of(best_path(engine, best_path_head))
        \ blocks_of(best_path(engine', best_path_head'))

(* C13: after a fork switch, whatever the depth of the common ancestor,    *)
(* every transaction of every abandoned block that is not contained in a   *)
(* block of the new best path is in the buffer.                            *)
C13_AbandonedReturnToBuffer ==
    [][ForkSwitch =>
          \A b \in abandoned_blocks : \A t \in Range(b.transactions) :
              t \notin transactions_of(best_path(engine', best_path_head'))
                  => t \in transaction_buffer']_vars

----------------------------------------------------------------------------
\* the ledger reconstructed from the genesis up to the parent of path[i]
reconstructed(path, i) == replay(root_ledger, SubSeq(path, 1, i - 1))

\* the producer of path[i] does not win the real lottery against that ledger
loses_lottery(path, i) ==
    ~is_winner(reconstructed(path, i), path[i].draw, path[i].producer, FALSE)

(* C14: verify_chain (real lottery) returns false whenever the producer of *)
(* some block of the best path, the genesis excluded, does not win the     *)
(* lottery against the ledger reconstructed from the genesis up to the     *)
(* parent of that block; so it returns false once add_block has put such   *)
(* a block on the tip.                                                     *)
C14_LoserFailsVerification ==
    LET path == best_path(engine, best_path_head)
    IN  (\E i \in DOMAIN path : loses_lottery(path, i)) => ~verify_chain(engine, FALSE)

C14_Witness ==
    LET path == best_path(engine, best_path_head)
    IN  /\ ~panicked
        /\ Len(path) >= 2
        /\ loses_lottery(path, 1)
        /\ ~loses_lottery(path, 2)
        /\ verify_chain(engine, TRUE)
        /\ ~verify_chain(engine, FALSE)

----------------------------------------------------------------------------
\* the engine with amount credited to account in the live ledger, from outside
\* (test_illegal_ledger: blockchain.ledger.reward_winner(vk1, 50))
credited(s, account, amount) ==
    [s EXCEPT !.ledger = reward_winner(@, account, amount)]

(* C15: verify_chain returns true only if the live ledger equals the        *)
(* ledger a replay of the best path from the genesis gives; and when it    *)
(* returns true, a credit made to any account of the live ledger from      *)
(* outside makes it return false.  For both settings of the lottery.       *)
C15_VerifiedLedgerIsReplay ==
    \A always_win \in BOOLEAN :
        verify_chain(engine, always_win) =>
            /\ ledger = replay_from_genesis
            /\ \A account \in Accounts : \A amount \in {1, BLOCK_REWARD} :
                  ~verify_chain(credited(engine, account, amount), always_win)

C15_Witness ==
    /\ ~panicked
    /\ verify_chain(engine, FALSE)
    /\ best_path_head[2] >= 1
    /\ count_transactions(best_path(engine, best_path_head)) >= 1
    /\ last_call.op = "add_block"

----------------------------------------------------------------------------
(* C16: for every interleaving of get_draw, add_block and get_new_block,   *)
(* the block get_new_block returns has the hash of the tip at the moment   *)
(* of that call as its prev_hash and the depth of that tip + 1 as its      *)
(* depth, so that its parent is found at level depth - 1.  get_new_block   *)
(* leaves the engine as it is, so the tip at the moment of the call is     *)
(* the tip of the state the call leaves.                                   *)
C16_NewBlockExtendsTip ==
    (last_call.op = "get_new_block") =>
        /\ last_call.ret.prev_hash = best_path_head[1]
        /\ last_call.ret.depth = best_path_head[2] + 1
        /\ parent_known(engine, last_call.ret)

----------------------------------------------------------------------------
(* C17: add_block is idempotent: given a block that is already in the tree *)
(* (the tip, an ancestor of the tip or a block of an abandoned branch) it  *)
(* leaves the tree, the tip, the ledger, the buffer and the orphans as     *)
(* they are.                                                               *)
C17_Idempotent ==
    [][(AddBlockStep
          /\ has_block(engine, last_call'.arg.hash, last_call'.arg.depth)) =>
          /\ ~panicked'
          /\ UNCHANGED <<blocks, best_path_head, ledger, transaction_buffer, orphans>>]_vars

----------------------------------------------------------------------------
\* the transactions tried on the ledgers the engine reaches
LedgerTransactions ==
    {transaction_b1_1, transaction_b1_2, transaction_b2_1, transaction_b2_2,
     transaction_b2_3, transaction_forged, Transaction_new(3, 3, 3, 0, 3),
     Transaction_new(2, 4, 2, 299, 0), Transaction_new(4, 1, 4, 49, 1)}

(* C18: for every ledger and every transaction t that applies to it,       *)
(* applying t and then rolling t back restores every balance and the       *)
(* sender's high-water timeslot, so that t applies again; and t applied a  *)
(* second time right after the first is refused.                           *)
C18_RollbackInverse ==
    \A t \in LedgerTransactions :
        LET applied == process_transaction(ledger, t)
            undone == rollback_transaction(applied.l, t)
        IN  applied.ok =>
                /\ ~undone.panic
                /\ \A a \in Accounts : get_balance(undone, a) = get_balance(ledger, a)
                /\ high_water(undone, t.from) = high_water(ledger, t.from)
                /\ undone = ledger
                /\ process_transaction(undone, t).ok
                /\ ~process_transaction(applied.l, t).ok

C18_Witness ==
    \E t \in LedgerTransactions :
        /\ process_transaction(ledger, t).ok
        /\ high_water(ledger, t.from) >= 0
        /\ t.amount > 0
        /\ t.from # t.to
        /\ get_balance(ledger, t.to) # ROOT_AMOUNT

----------------------------------------------------------------------------
\* no balance of the ledger is a wrapped value
unwrapped(l) == \A a \in Accounts : get_balance(l, a) >= 0

\* an engine that shares nothing with the current one but the ledger
other_engine == [start EXCEPT !.ledger = ledger]

(* C19: under the real lottery the decision for balance b, total supply T, *)
(* draw value v, M = MAX_HASH and H = HARDNESS is true exactly when        *)
(* v * (H*T + b*(M - H)) > H*T*M; an account with balance 0 wins with no   *)
(* draw value below M; and the decision depends on the ledger, the draw    *)
(* and the wallet only.  For the ledgers without wrapped balances.         *)
C19_WinDecision ==
    unwrapped(ledger) =>
        \A wallet \in Accounts : \A v \in 0 .. (MAX_HASH - 1) :
            LET drawn == Draw_new(clock, wallet, wallet, best_path_head[1], v)
                b == get_balance(ledger, wallet)
                T == get_total_money_in_ledger(ledger)
            IN  /\ stake(engine, drawn, wallet, FALSE)
                      <=> (v * (HARDNESS * T + b * (MAX_HASH - HARDNESS))
                              > HARDNESS * T * MAX_HASH)
                /\ b = 0 => ~stake(engine, drawn, wallet, FALSE)
                /\ stake(engine, drawn, wallet, FALSE)
                      = stake(other_engine, drawn, wallet, FALSE)

C19_Witness ==
    /\ unwrapped(ledger)
    /\ ledger # root_ledger
    /\ \E wallet \in Accounts : \E v \in 0 .. (MAX_HASH - 1) :
          LET drawn == Draw_new(clock, wallet, wallet, best_path_head[1], v)
          IN  /\ stake(engine, drawn, wallet, FALSE)
              /\ ~stake(engine, [drawn EXCEPT !.value = v - 1], wallet, FALSE)
              /\ v * get_balance(ledger, wallet)
                    # (MAX_HASH - v) * get_total_money_in_ledger(ledger)
    /\ \E wallet \in Accounts : get_balance(ledger, wallet) = 0

----------------------------------------------------------------------------
\* the producers of the abandoned blocks, from the old tip downwards
abandoned_producers ==
    LET old_path == best_path(engine, best_path_head)
        n == Len(old_path)
        k == Cardinality(abandoned_blocks)
    IN  [i \in 1 .. k |-> old_path[n + 1 - i].draw.signed_by]

(* C20: in the rewind of a fork switch the block reward is debited exactly *)
(* once for each abandoned block of the old tip's branch, from the         *)
(* producer of that abandoned block, and from no producer of a block of    *)
(* the new branch or of its parent.                                        *)
C20_RewardDebitedFromAbandoned ==
    [][ForkSwitch => last_call'.debited = abandoned_producers]_vars

----------------------------------------------------------------------------
\* the ledger calls that undo a block as rewind-and-replay is specified: the
\* reward, then the transactions from the last to the first
reward_then_reversed(steps, transactions) ==
    /\ Len(steps) = Len(transactions) + 1
    /\ steps[1].transaction = <<>>
    /\ \A j \in 1 .. Len(transactions) :
          steps[j + 1] = step_transaction(transactions[Len(transactions) + 1 - j])

(* C21: when rollback undoes a block, the reward is rolled back first and  *)
(* then the transactions of the block in the reverse of their order in the *)
(* block, the last one first.                                              *)
C21_UndoneInReverse ==
    [][AddBlockReturns =>
          \A i \in DOMAIN last_call'.undone :
              reward_then_reversed(last_call'.undone[i].steps,
                                   last_call'.undone[i].block.transactions)]_vars

----------------------------------------------------------------------------
\* a call of add_block that re-submits no orphan calls rollback at most
\* once, with from = the old tip and to = the block, exactly when the tip
\* moves to a block that is not a child of the old tip
RollbackCalled ==
    /\ AddBlockReturns
    /\ last_call'.resubmitted = <<>>
    /\ best_path_head' # best_path_head
    /\ best_path_head[1] # last_call'.arg.prev_hash

\* the parent chains of from and to, from depth 1 upwards
from_chain == best_path(engine, best_path_head)
to_chain == best_path(engine', <<last_call'.arg.hash, last_call'.arg.depth>>)

\* the depth of the lowest common ancestor of from and to
ancestor_depth == Cardinality(Range(from_chain) \cap Range(to_chain))

(* C22: rollback(from, to), to not above from and from no ancestor of to,  *)
(* undoes exactly the blocks of the parent chain of from strictly above    *)
(* the lowest common ancestor, each once, and replays exactly the blocks   *)
(* of the parent chain of to strictly above it, each once, by increasing   *)
(* depth; the ancestor and what is below it, the genesis included, is      *)
(* neither undone nor replayed.                                            *)
C22_UndoneAndReplayed ==
    [][RollbackCalled =>
          /\ last_call'.arg.depth >= best_path_head[2]
          /\ Len(last_call'.undone) = Len(from_chain) - ancestor_depth
          /\ \A i \in DOMAIN last_call'.undone :
                last_call'.undone[i].block = from_chain[Len(from_chain) + 1 - i].hash
          /\ Len(last_call'.replayed) = Len(to_chain) - ancestor_depth
          /\ \A i \in DOMAIN last_call'.replayed :
                last_call'.replayed[i] = to_chain[ancestor_depth + i].hash]_vars

\* rollback has undone two blocks, down to the genesis, and replayed two
C22_Witness ==
    /\ last_call.op = "add_block"
    /\ ~panicked
    /\ last_call.resubmitted = <<>>
    /\ Len(last_call.undone) = 2
    /\ Len(last_call.replayed) = 2
    /\ last_call.replayed[2] = best_path_head[1]
    /\ best_path_head[2] = 2

----------------------------------------------------------------------------
(* C23: if a transaction of a block fails to apply to the ledger while the *)
(* block is applied on the fast path or replayed by rollback, the engine   *)
(* halts: add_block never returns having skipped the transaction and left  *)
(* the block on the best path.                                             *)
C23_FailedApplyHalts ==
    [][AddBlockReturns => last_call'.skipped = <<>>]_vars

----------------------------------------------------------------------------
\* the number of places of seq that hold x
occurrences(seq, x) == Cardinality({i \in DOMAIN seq : seq[i] = x})

\* the number of entries of the orphan index of s that hold the block with this hash
parked_entries(s, hash) ==
    Cardinality({place \in UNION {{<<h, i>> : i \in DOMAIN s.orphans[h]} : h \in DOMAIN s.orphans} :
                    s.orphans[place[1]][place[2]].hash = hash})

(* C24: within one call of add_block each parked block is re-submitted at  *)
(* most once: a block is re-submitted no more often than the orphan index  *)
(* held it when the call began, so that a block parked again during the    *)
(* cascade is not re-submitted again in the same call.                     *)
C24_ResubmittedOnce ==
    [][AddBlockReturns =>
          \A i \in DOMAIN last_call'.resubmitted :
              occurrences(last_call'.resubmitted, last_call'.resubmitted[i])
                  <= parked_entries(engine, last_call'.resubmitted[i])]_vars

----------------------------------------------------------------------------
\* every block above level 0 has the depth of its level, its parent one
\* level below and a timeslot above its parent's
levels_linked ==
    \A d \in 1 .. (Len(blocks) - 1) : \A b \in level(engine, d) :
        /\ b.depth = d
        /\ has_block(engine, b.prev_hash, d - 1)
        /\ b.timeslot > get_block(engine, b.prev_hash, d - 1).timeslot

\* the block names a stored block as its parent, at another depth than its own - 1
misplaced(s, block) ==
    \E b \in tree_blocks(s) : b.hash = block.prev_hash /\ block.depth # b.depth + 1

(* C25: every block stored at a level d > 0 of the tree has depth field d, *)
(* has the block named by its prev_hash stored at level d - 1 and has a    *)
(* timeslot strictly above that block's; and add_block never inserts a     *)
(* block whose prev_hash names a known block whose depth + 1 is not the    *)
(* depth of the block.                                                     *)
C25_LevelsLinked ==
    /\ []levels_linked
    /\ [][(AddBlockStep /\ misplaced(engine, last_call'.arg))
            => last_call'.arg \notin tree_blocks(engine')]_vars

\* a block naming a stored parent at the wrong depth was submitted to a tree
\* of three levels and is not in it
C25_Witness ==
    /\ last_call.op = "add_block"
    /\ ~panicked
    /\ misplaced(engine, last_call.arg)
    /\ last_call.arg \notin tree_blocks(engine)
    /\ Len(blocks) >= 3

----------------------------------------------------------------------------
(* C26: a block inserted into the tree stays at its level under its hash   *)
(* in every later state: no call, fork switch or orphan cascade removes a  *)
(* block from the tree.                                                    *)
C26_BlocksStay ==
    [][/\ Len(blocks') >= Len(blocks)
       /\ \A d \in 0 .. (Len(blocks) - 1) : \A b \in level(engine, d) :
             \E c \in level(engine', d) : c.hash = b.hash /\ c = b]_vars

\* a call with an orphan cascade has switched the fork, and the blocks it
\* abandoned are in the tree
C26_Witness ==
    /\ last_call.op = "add_block"
    /\ ~panicked
    /\ last_call.resubmitted # <<>>
    /\ last_call.undone # <<>>
    /\ \A i \in DOMAIN last_call.undone :
          /\ has_block(engine, last_call.undone[i].block, last_call.undone[i].block.depth)
          /\ last_call.undone[i].block
                \notin {b.hash : b \in blocks_of(best_path(engine, best_path_head))}

----------------------------------------------------------------------------
(* C27: level 0 of the tree holds exactly one block, the genesis made by   *)
(* start; and a submitted block whose depth field is 0 is rejected or      *)
(* parked with no arithmetic error in the lookup of its parent at          *)
(* depth - 1, and is not inserted at level 0.                              *)
C27_GenesisAlone ==
    /\ [](level(engine, 0) = {genesis})
    /\ [][(AddBlockStep /\ last_call'.arg.depth = 0)
            => /\ ~panicked'
               /\ ~last_call'.ret
               /\ last_call'.arg \notin level(engine', 0)]_vars

====
